---- MODULE Spec2Model ----
(***************************************************************************)
(* Model of the main-process supervisory layer of Covenantrix_App:         *)
(*   - PythonBackend (src/main.js): start / _startInternal / waitForReady  *)
(*     / stop, the child-process exit and error handlers, the grace timer; *)
(*   - the application lifecycle handlers (whenReady, activate,            *)
(*     window-all-closed, before-quit);                                    *)
(*   - the auto-updater event handlers and bridge commands;                *)
(*   - the backend bridge command handlers (result envelopes).             *)
(***************************************************************************)
EXTENDS Integers, Sequences, FiniteSets, TLC

\* ------------------------------------------------------------------ bounds

\* Number of start()/stop() calls an external caller issues in SpecSupervisor.
MaxCalls == 3

\* Number of 'updater-message' listeners a renderer registers in SpecPreload.
MaxListeners == 2

\* Number of checkForUpdates() calls made on the UpdateManager in SpecManager.
MaxChecks == 3

\* ------------------------------------------------------- program constants

\* waitForReady: const maxRetries = 30
maxRetries == 30

\* ------------------------------------------------------------------- state

VARIABLES
  isDev,           \* process.env.NODE_ENV === 'development'
  platform,        \* process.platform
  pythonExists,    \* fs.existsSync(pythonPath)
  scriptExists,    \* fs.existsSync(prodPath)
  backend,         \* the global PythonBackend instance and what it has set in motion
  appPc,           \* position of the application: init/starting/loading/running/quit
  windows,         \* the open BrowserWindows (slots)
  mainWindow,      \* the mainWindow variable: 0 = null, else a window slot
  dialogShown,     \* dialog.showErrorBox was called
  updaterScheduled,\* the timers of setupAutoUpdater that are armed
  ui,              \* per window slot, the state of its useAppUpdater hook
  exitCode,        \* the exit code of the main process: -1 while it runs
  listeners,       \* per window slot, the number of 'updater-message' listeners
                   \* registered on its ipcRenderer
  updateAvailable, \* let updateAvailable
  updateDownloaded,\* let updateDownloaded
  provider,        \* the autoUpdater: what it is doing and what it has been asked
  bridge,          \* the latest updater command of the bridge and its result
  manager,         \* the UpdateManager of renderer.js: its isChecking flag and the
                   \* checkForUpdates() calls made on it
  connection,      \* per window slot, the connection flags of the UI:
                   \* isBackendConnected of App, isConnected of Sidebar
  proxy            \* the latest backend command of the bridge, the answer of the
                   \* backend to its fetch, and its result

envVars == <<isDev, platform, pythonExists, scriptExists>>
appVars == <<appPc, windows, mainWindow, dialogShown, updaterScheduled, ui, exitCode,
             listeners>>
updVars == <<updateAvailable, updateDownloaded, provider, bridge>>
rendVars == <<manager, connection>>
vars == <<envVars, backend, appVars, updVars, rendVars, proxy>>

Platforms == {"darwin", "win32"}

\* what a GET /health poll can come back with: a connection error, a non-2xx
\* status, a 2xx status with a JSON body, a 2xx status whose body is not JSON
Responses == {"neterr", "non2xx", "ok_json", "ok_badjson"}

Is2xx(r) == r \in {"ok_json", "ok_badjson"}

\* PythonBackend constructor: process = null, isReady = false, startupPromise =
\* null. tasks: one record per _startInternal invocation (the promise it
\* returned); procs: one record per spawned child; timers: the armed grace
\* timers, each named by the process its stop() was stopping; starts, stops:
\* the number of start() and stop() calls so far; returned: the promise the
\* latest start() call returned.
PythonBackend ==
  [ process |-> 0, isReady |-> FALSE, startupPromise |-> 0,
    tasks |-> <<>>, procs |-> <<>>, timers |-> {}, starts |-> 0, stops |-> 0,
    returned |-> 0 ]

\* ChildProcess.killed: kill() delivered a signal
killed(B, p) == B.procs[p].signal # "none"

\* ChildProcess.kill(sig): the signal is delivered when the child still runs
kill(B, p, sig) ==
  IF B.procs[p].st = "running"
  THEN [B EXCEPT !.procs[p].signal = sig]
  ELSE B

\* getPythonPath / getBackendPath: neither throws
pathsResolve == isDev \/ (pythonExists /\ scriptExists)

\* _startInternal up to its first await: resolve the paths (a throw is caught,
\* isReady = false, the promise rejects), else spawn and start polling
startInternal(B) ==
  IF pathsResolve
  THEN [B EXCEPT
          !.procs = Append(@, [st |-> "running", signal |-> "none", by |-> Len(B.tasks) + 1]),
          !.process = Len(B.procs) + 1,
          !.tasks = Append(@, [pc |-> "polling", i |-> 0, got2xx |-> FALSE, err |-> "none"])]
  ELSE [B EXCEPT
          !.isReady = FALSE,
          !.tasks = Append(@, [pc |-> "rejected", i |-> 0, got2xx |-> FALSE, err |-> "path"])]

\* the tasks still polling
Pending(B) == {t \in 1..Len(B.tasks) : B.tasks[t].pc = "polling"}

\* start() that starts again when the process it holds has exited
start_restartExited(B) ==
  IF B.startupPromise # 0 /\ ~(B.process # 0 /\ B.procs[B.process].st = "exited")
  THEN [B EXCEPT !.returned = B.startupPromise, !.starts = @ + 1]
  ELSE LET B1 == startInternal(B) IN
       [B1 EXCEPT !.startupPromise = Len(B1.tasks), !.returned = Len(B1.tasks),
                  !.starts = @ + 1]

\* start() that forgets a rejected promise
start_retryRejected(B) ==
  IF B.startupPromise # 0 /\ B.tasks[B.startupPromise].pc # "rejected"
  THEN [B EXCEPT !.returned = B.startupPromise, !.starts = @ + 1]
  ELSE LET B1 == startInternal(B) IN
       [B1 EXCEPT !.startupPromise = Len(B1.tasks), !.returned = Len(B1.tasks),
                  !.starts = @ + 1]

\* start() without the memoized promise
start_noMemo(B) ==
  LET B1 == startInternal(B) IN
  [B1 EXCEPT !.startupPromise = Len(B1.tasks), !.returned = Len(B1.tasks),
             !.starts = @ + 1]

\* PythonBackend.start
start(B) ==
  IF B.startupPromise # 0
  THEN [B EXCEPT !.returned = B.startupPromise, !.starts = @ + 1]
  ELSE LET B1 == startInternal(B) IN
       [B1 EXCEPT !.startupPromise = Len(B1.tasks), !.returned = Len(B1.tasks),
                  !.starts = @ + 1]

\* stop() that sends no signal
stop_noSignal(B) ==
  [B EXCEPT !.isReady = FALSE, !.process = 0, !.startupPromise = 0, !.stops = @ + 1]

\* stop() that leaves the memoized promise in place
stop_keepPromise(B) ==
  LET p  == B.process
      B1 == IF p # 0 /\ ~killed(B, p)
            THEN [kill(B, p, "SIGTERM") EXCEPT !.timers = @ \cup {p}]
            ELSE B
  IN [B1 EXCEPT !.isReady = FALSE, !.process = 0, !.stops = @ + 1]

\* PythonBackend.stop
stop(B) ==
  LET p  == B.process
      B1 == IF p # 0 /\ ~killed(B, p)
            THEN [kill(B, p, "SIGTERM") EXCEPT !.timers = @ \cup {p}]
            ELSE B
  IN [B1 EXCEPT !.isReady = FALSE, !.process = 0, !.startupPromise = 0,
                !.stops = @ + 1]

\* the callback of the grace timer armed by the stop() that was stopping p
graceTimer(B, p) ==
  LET q  == B.process
      B1 == IF q # 0 /\ ~killed(B, q) THEN kill(B, q, "SIGKILL") ELSE B
  IN [B1 EXCEPT !.timers = @ \ {p}]

\* one iteration of waitForReady's loop in task t with response r, and what
\* _startInternal does when waitForReady returns or throws
waitForReady(B, t, r) ==
  LET n == B.tasks[t].i + 1
      T == [B.tasks[t] EXCEPT !.i = n, !.got2xx = @ \/ Is2xx(r)]
  IN IF r = "ok_json"
     THEN [B EXCEPT !.tasks[t] = [T EXCEPT !.pc = "resolved"], !.isReady = TRUE]
     ELSE IF n = maxRetries
     THEN [B EXCEPT !.tasks[t] = [T EXCEPT !.pc = "rejected", !.err = "timeout"],
                    !.isReady = FALSE]
     ELSE [B EXCEPT !.tasks[t] = T]

\* the 'exit' and 'error' handlers registered on child p
\* an 'exit' handler that leaves isReady alone
onExit_keepReady(B, p) == [B EXCEPT !.procs[p].st = "exited"]

onExit(B, p) == [B EXCEPT !.procs[p].st = "exited", !.isReady = FALSE]

onError(B, p) == [B EXCEPT !.procs[p].st = "exited", !.isReady = FALSE]

\* ------------------------------------------------------------- application

WindowSlots == {1, 2}

\* useAppUpdater's useState initial values: status 'idle', error null,
\* progress null (percent -1)
UiInit == [status |-> "idle", error |-> "null", percent |-> -1]

\* createWindow: mainWindow = new BrowserWindow(...)
createWindow(ws) == CHOOSE w \in WindowSlots : w \notin ws

\* setupAutoUpdater: when !isDev, arms the one-shot startup timer and the
\* recurring timer
setupAutoUpdater == IF ~isDev THEN {"setTimeout", "setInterval"} ELSE {}

\* preload onUpdaterMessage: ipcRenderer.on('updater-message', ...) adds a
\* listener to the n already registered
onUpdaterMessage(n) == n + 1

\* a removeUpdaterListener that removes one listener
removeUpdaterListener_one(n) == IF n > 0 THEN n - 1 ELSE 0

\* preload removeUpdaterListener: ipcRenderer.removeAllListeners('updater-message')
removeUpdaterListener(n) == 0

\* the page of a new window loads: a fresh renderer, in which the effect of
\* useAppUpdater registers handleUpdaterMessage
useEffect(L, w) == [L EXCEPT ![w] = onUpdaterMessage(0)]

\* app.quit(): 'before-quit' runs backend.stop(), the windows close, the main
\* process ends with exit code 0 (only app.exit(code) sets another one)
Quit(B) ==
  /\ backend' = stop(B)
  /\ appPc' = "quit"
  /\ exitCode' = 0
  /\ windows' = {}
  /\ mainWindow' = 0
  /\ ui' = [w \in WindowSlots |-> UiInit]
  /\ listeners' = [w \in WindowSlots |-> 0]

\* the catch block of the whenReady handler
StartupFailed(B) ==
  /\ dialogShown' = TRUE
  /\ Quit(B)
  /\ UNCHANGED updaterScheduled

\* what the whenReady handler does once backend.start() has settled as task t
\* of B says: createWindow() on success, the catch block on rejection
AfterStart(B, t) ==
  IF B.tasks[t].pc = "resolved"
  THEN /\ backend' = B
       /\ windows' = windows \cup {createWindow(windows)}
       /\ mainWindow' = createWindow(windows)
       /\ listeners' = useEffect(listeners, createWindow(windows))
       /\ appPc' = "loading"
       /\ UNCHANGED <<dialogShown, updaterScheduled, ui, exitCode>>
  ELSE IF B.tasks[t].pc = "rejected"
  THEN StartupFailed(B)
  ELSE /\ backend' = B
       /\ appPc' = "starting"
       /\ UNCHANGED <<windows, mainWindow, dialogShown, updaterScheduled, ui, exitCode,
                      listeners>>

\* app.whenReady().then(...): await backend.start()
WhenReady ==
  /\ appPc = "init"
  /\ LET B == start(backend) IN AfterStart(B, B.startupPromise)
  /\ UNCHANGED <<proxy, rendVars, envVars, updVars>>

\* a health poll of task t comes back with r
Poll(t, r) ==
  /\ appPc # "quit"
  /\ t \in Pending(backend)
  /\ LET B == waitForReady(backend, t, r) IN
       IF appPc = "starting" /\ t = backend.returned
       THEN AfterStart(B, t)
       ELSE backend' = B /\ UNCHANGED appVars
  /\ UNCHANGED <<proxy, rendVars, envVars, updVars>>

\* mainWindow.loadURL / loadFile resolves: the 'closed' handler is registered,
\* createWindow returns, setupAutoUpdater() runs
LoadDone ==
  /\ appPc = "loading"
  /\ appPc' = "running"
  /\ updaterScheduled' = setupAutoUpdater
  /\ UNCHANGED <<proxy, rendVars, envVars, backend, windows, mainWindow, dialogShown, ui, exitCode,
                 listeners, updVars>>

\* mainWindow.loadURL / loadFile rejects: createWindow rethrows into the catch
LoadFail ==
  /\ appPc = "loading"
  /\ StartupFailed(backend)
  /\ UNCHANGED <<proxy, rendVars, envVars, updVars>>

\* app.on('activate')
Activate ==
  /\ platform = "darwin"
  /\ appPc \in {"starting", "loading", "running"}
  /\ IF windows = {}
     THEN /\ windows' = {createWindow(windows)}
          /\ mainWindow' = createWindow(windows)
          /\ listeners' = useEffect(listeners, createWindow(windows))
     ELSE UNCHANGED <<windows, mainWindow, listeners>>
  /\ UNCHANGED <<proxy, rendVars, envVars, backend, appPc, dialogShown, updaterScheduled, ui, exitCode,
                 updVars>>

\* a window whose hook state outlives it
WindowClosed_keepsUi(w) ==
  /\ appPc # "quit"
  /\ w \in windows
  /\ IF windows = {w} /\ platform # "darwin"
     THEN Quit(stop(backend))
     ELSE /\ windows' = windows \ {w}
          /\ mainWindow' = 0
          /\ listeners' = [listeners EXCEPT ![w] = 0]
          /\ UNCHANGED <<backend, appPc, exitCode, ui>>
  /\ UNCHANGED <<proxy, rendVars, envVars, dialogShown, updaterScheduled, updVars>>

\* the user closes window w: its 'closed' handler, then 'window-all-closed'
\* (backend.stop(); app.quit(), whose 'before-quit' calls backend.stop() again)
WindowClosed(w) ==
  /\ appPc # "quit"
  /\ w \in windows
  /\ IF windows = {w} /\ platform # "darwin"
     THEN Quit(stop(backend))
     ELSE /\ windows' = windows \ {w}
          /\ mainWindow' = 0
          /\ ui' = [ui EXCEPT ![w] = UiInit]
          /\ listeners' = [listeners EXCEPT ![w] = 0]
          /\ UNCHANGED <<backend, appPc, exitCode>>
  /\ UNCHANGED <<proxy, rendVars, envVars, dialogShown, updaterScheduled, updVars>>

\* the user quits the application: 'before-quit'
UserQuit ==
  /\ appPc \in {"starting", "loading", "running"}
  /\ Quit(backend)
  /\ UNCHANGED <<proxy, rendVars, envVars, dialogShown, updaterScheduled, updVars>>

\* child p exits: its 'exit' handler
ProcExit(p) ==
  /\ p \in 1..Len(backend.procs)
  /\ backend.procs[p].st = "running"
  /\ backend' = onExit(backend, p)
  /\ UNCHANGED <<proxy, rendVars, envVars, appVars, updVars>>

\* child p could not be spawned: its 'error' handler
ProcError(p) ==
  /\ appPc # "quit"
  /\ p \in 1..Len(backend.procs)
  /\ backend.procs[p].st = "running"
  /\ backend.procs[p].signal = "none"
  /\ backend' = onError(backend, p)
  /\ UNCHANGED <<proxy, rendVars, envVars, appVars, updVars>>

\* the grace timer armed by the stop() that was stopping p fires
TimerFire(p) ==
  /\ appPc # "quit"
  /\ p \in backend.timers
  /\ backend' = graceTimer(backend, p)
  /\ UNCHANGED <<proxy, rendVars, envVars, appVars, updVars>>

\* an outside caller of the PythonBackend API calls start()
StartCall ==
  /\ backend.starts + backend.stops < MaxCalls
  /\ backend' = start(backend)
  /\ UNCHANGED <<proxy, rendVars, envVars, appVars, updVars>>

\* an outside caller of the PythonBackend API calls stop()
StopCall ==
  /\ backend.starts + backend.stops < MaxCalls
  /\ backend' = stop(backend)
  /\ UNCHANGED <<proxy, rendVars, envVars, appVars, updVars>>

\* ----------------------------------------------------------------- updater

\* the download percentages the autoUpdater reports, in tenths of a percent
ProviderPercents == {0, 495, 505, 1000}

\* a rounding that wraps at 100
MathRound_wrap(x10) == ((x10 + 5) \div 10) % 100

\* Math.round of a non-negative number given in tenths
MathRound(x10) == (x10 + 5) \div 10

\* the autoUpdater before any call: phase idle; seq is the parity of the number
\* of checkForUpdates() calls made, sent the last percentage it reported
\* (tenths), installs whether quitAndInstall() has been called, feedURL whether
\* setFeedURL() has been called, emitted the latest event of the current check
ProviderInit ==
  [phase |-> "idle", seq |-> 0, sent |-> -1, installs |-> FALSE, feedURL |-> FALSE,
   emitted |-> "none"]

\* autoUpdater.setFeedURL({ url })
setFeedURL(P) == [P EXCEPT !.feedURL = TRUE]

\* no updater command yet; consented: a download-update command has succeeded
\* since the latest 'update-available' event
BridgeInit ==
  [seq |-> 0, cmd |-> "none", success |-> FALSE, error |-> "null", consented |-> FALSE]

\* autoUpdater.checkForUpdates()
checkForUpdates(P) ==
  [P EXCEPT !.phase = "called", !.seq = 1 - @, !.sent = -1, !.emitted = "none"]

\* handleUpdaterMessage that shows 'update-not-available' as an error
handleUpdaterMessage_notAvailableAsError(U, data) ==
  CASE data.type = "checking-for-update" ->
         [U EXCEPT !.status = "checking", !.error = "null"]
    [] data.type = "update-available" ->
         [U EXCEPT !.status = "available", !.error = "null"]
    [] data.type = "update-not-available" ->
         [U EXCEPT !.status = "error", !.error = "Update error occurred"]
    [] data.type = "download-progress" ->
         [U EXCEPT !.status = "downloading", !.percent = data.percent, !.error = "null"]
    [] data.type = "update-downloaded" ->
         [U EXCEPT !.status = "downloaded", !.percent = -1, !.error = "null"]
    [] data.type = "error" ->
         [U EXCEPT !.status = "error",
                   !.error = IF data.message # "undefined" THEN data.message
                             ELSE "Update error occurred"]
    [] OTHER -> U

\* handleUpdaterMessage of useAppUpdater
handleUpdaterMessage(U, data) ==
  CASE data.type = "checking-for-update" ->
         [U EXCEPT !.status = "checking", !.error = "null"]
    [] data.type = "update-available" ->
         [U EXCEPT !.status = "available", !.error = "null"]
    [] data.type = "update-not-available" ->
         [U EXCEPT !.status = "not-available", !.error = "null"]
    [] data.type = "download-progress" ->
         [U EXCEPT !.status = "downloading", !.percent = data.percent, !.error = "null"]
    [] data.type = "update-downloaded" ->
         [U EXCEPT !.status = "downloaded", !.percent = -1, !.error = "null"]
    [] data.type = "error" ->
         [U EXCEPT !.status = "error",
                   !.error = IF data.message # "undefined" THEN data.message
                             ELSE "Update error occurred"]
    [] OTHER -> U

\* if (mainWindow) mainWindow.webContents.send('updater-message', data): every
\* listener registered in that window runs handleUpdaterMessage
send(data) ==
  IF mainWindow # 0 /\ listeners[mainWindow] > 0
  THEN [ui EXCEPT ![mainWindow] = handleUpdaterMessage(@, data)]
  ELSE ui

\* a message as the main process builds it: it carries no 'message' field
Message(type, percent, error) ==
  [type |-> type, percent |-> percent, error |-> error, message |-> "undefined"]

\* autoUpdater.on('checking-for-update')
OnCheckingForUpdate ==
  /\ appPc # "quit"
  /\ provider.phase = "called"
  /\ provider' = [provider EXCEPT !.phase = "checking", !.emitted = "checking-for-update"]
  /\ ui' = send(Message("checking-for-update", -1, "undefined"))
  /\ UNCHANGED <<proxy, rendVars, envVars, backend, appPc, exitCode, listeners, windows, mainWindow, dialogShown,
                 updaterScheduled, updateAvailable, updateDownloaded, bridge>>

\* autoUpdater.on('update-available'): the autoUpdater then downloads the update
OnUpdateAvailable ==
  /\ appPc # "quit"
  /\ provider.phase = "checking"
  /\ provider' = [provider EXCEPT !.phase = "downloading", !.emitted = "update-available"]
  /\ updateAvailable' = TRUE
  /\ bridge' = [bridge EXCEPT !.consented = FALSE]
  /\ ui' = send(Message("update-available", -1, "undefined"))
  /\ UNCHANGED <<proxy, rendVars, envVars, backend, appPc, exitCode, listeners, windows, mainWindow, dialogShown,
                 updaterScheduled, updateDownloaded>>

\* autoUpdater.on('update-not-available')
OnUpdateNotAvailable ==
  /\ appPc # "quit"
  /\ provider.phase = "checking"
  /\ provider' = [provider EXCEPT !.phase = "idle", !.emitted = "update-not-available"]
  /\ updateAvailable' = FALSE
  /\ ui' = send(Message("update-not-available", -1, "undefined"))
  /\ UNCHANGED <<proxy, rendVars, envVars, backend, appPc, exitCode, listeners, windows, mainWindow, dialogShown,
                 updaterScheduled, updateDownloaded, bridge>>

\* autoUpdater.on('error'): the check or the download failed
OnError ==
  /\ appPc # "quit"
  /\ provider.phase \in {"called", "checking", "downloading"}
  /\ provider' = [provider EXCEPT !.phase = "idle", !.emitted = "error"]
  /\ ui' = send(Message("error", -1, "err.message"))
  /\ UNCHANGED <<proxy, rendVars, envVars, backend, appPc, exitCode, listeners, windows, mainWindow, dialogShown,
                 updaterScheduled, updateAvailable, updateDownloaded, bridge>>

\* autoUpdater.on('download-progress') with progressObj.percent = x10 / 10
OnDownloadProgress(x10) ==
  /\ appPc # "quit"
  /\ provider.phase = "downloading"
  /\ x10 >= provider.sent
  /\ provider' = [provider EXCEPT !.sent = x10, !.emitted = "download-progress"]
  /\ ui' = send(Message("download-progress", MathRound(x10), "undefined"))
  /\ UNCHANGED <<proxy, rendVars, envVars, backend, appPc, exitCode, listeners, windows, mainWindow, dialogShown,
                 updaterScheduled, updateAvailable, updateDownloaded, bridge>>

\* autoUpdater.on('update-downloaded')
OnUpdateDownloaded ==
  /\ appPc # "quit"
  /\ provider.phase = "downloading"
  /\ provider' = [provider EXCEPT !.phase = "idle", !.emitted = "update-downloaded"]
  /\ updateDownloaded' = TRUE
  /\ ui' = send(Message("update-downloaded", -1, "undefined"))
  /\ UNCHANGED <<proxy, rendVars, envVars, backend, appPc, exitCode, listeners, windows, mainWindow, dialogShown,
                 updaterScheduled, updateAvailable, bridge>>

Ok == [success |-> TRUE, error |-> "null"]

Fail(error) == [success |-> FALSE, error |-> error]

\* check-for-updates without the isDev test
checkForUpdatesResult_noDevGuard(thrown) ==
  IF thrown THEN Fail("error.message") ELSE Ok

\* ipcMain.handle('check-for-updates'); thrown: autoUpdater.checkForUpdates() throws
checkForUpdatesResult(thrown) ==
  IF isDev THEN Fail("Updates not available in development mode")
  ELSE IF thrown THEN Fail("error.message")
  ELSE Ok

\* ipcMain.handle('download-update')
downloadUpdateResult ==
  IF isDev THEN Fail("Updates not available in development mode")
  ELSE IF ~updateAvailable THEN Fail("No update available to download")
  ELSE Ok

\* autoUpdater.quitAndInstall()
quitAndInstall(P) == [P EXCEPT !.installs = TRUE]

\* install-update without the updateDownloaded test
installUpdateAccepted_noFlag == ~isDev

\* install-update reaches its try block
installUpdateAccepted == ~isDev /\ updateDownloaded

\* ipcMain.handle('install-update'); thrown: autoUpdater.quitAndInstall() throws
installUpdateResult(thrown) ==
  IF isDev THEN Fail("Updates not available in development mode")
  ELSE IF ~updateDownloaded THEN Fail("No update downloaded yet")
  ELSE IF thrown THEN Fail("error.message")
  ELSE Ok

\* what checkForUpdates / downloadUpdate / installUpdate of useAppUpdater do
\* with the result R of their command: setError(null), then on failure
\* setError(result.error || fallback) and setUpdateStatus('error')
afterCommand(U, R) ==
  IF R.success
  THEN [U EXCEPT !.error = "null"]
  ELSE [U EXCEPT !.error = R.error, !.status = "error"]

Command(cmd, R) ==
  [seq |-> 1 - bridge.seq, cmd |-> cmd, success |-> R.success, error |-> R.error,
   consented |-> bridge.consented \/ (cmd = "download-update" /\ R.success)]

\* the hook of window w calls checkForUpdates()
UiCheckForUpdates(w, thrown) ==
  /\ appPc # "quit"
  /\ w \in windows
  /\ LET R == checkForUpdatesResult(thrown) IN
       /\ provider' = IF R.success THEN checkForUpdates(provider) ELSE provider
       /\ bridge' = Command("check-for-updates", R)
       /\ ui' = [ui EXCEPT ![w] = afterCommand(@, R)]
  /\ UNCHANGED <<proxy, rendVars, envVars, backend, appPc, exitCode, listeners, windows, mainWindow, dialogShown,
                 updaterScheduled, updateAvailable, updateDownloaded>>

\* a download-update that clears updateAvailable when it accepts
UiDownloadUpdate_clearsFlag(w) ==
  /\ appPc # "quit"
  /\ w \in windows
  /\ LET R == downloadUpdateResult IN
       /\ bridge' = Command("download-update", R)
       /\ ui' = [ui EXCEPT ![w] = afterCommand(@, R)]
       /\ updateAvailable' = (updateAvailable /\ ~R.success)
  /\ UNCHANGED <<proxy, rendVars, envVars, backend, appPc, exitCode, listeners, windows,
                 mainWindow, dialogShown, updaterScheduled, updateDownloaded, provider>>

\* the hook of window w calls downloadUpdate()
UiDownloadUpdate(w) ==
  /\ appPc # "quit"
  /\ w \in windows
  /\ LET R == downloadUpdateResult IN
       /\ bridge' = Command("download-update", R)
       /\ ui' = [ui EXCEPT ![w] = afterCommand(@, R)]
  /\ UNCHANGED <<proxy, rendVars, envVars, backend, appPc, exitCode, listeners, windows, mainWindow, dialogShown,
                 updaterScheduled, updateAvailable, updateDownloaded, provider>>

\* the hook of window w calls installUpdate(): autoUpdater.quitAndInstall()
\* quits the application
UiInstallUpdate(w, thrown) ==
  /\ appPc # "quit"
  /\ w \in windows
  /\ LET R == installUpdateResult(thrown) IN
       /\ bridge' = Command("install-update", R)
       /\ provider' = IF installUpdateAccepted THEN quitAndInstall(provider)
                      ELSE provider
       /\ IF R.success
          THEN Quit(backend)
          ELSE /\ ui' = [ui EXCEPT ![w] = afterCommand(@, R)]
               /\ UNCHANGED <<backend, appPc, exitCode, listeners, windows, mainWindow>>
  /\ UNCHANGED <<proxy, rendVars, envVars, dialogShown, updaterScheduled, updateAvailable,
                 updateDownloaded>>

\* timer k of setupAutoUpdater fires: autoUpdater.checkForUpdates()
TimerCheck(k) ==
  /\ appPc # "quit"
  /\ k \in updaterScheduled
  /\ updaterScheduled' = IF k = "setTimeout" THEN updaterScheduled \ {k}
                         ELSE updaterScheduled
  /\ provider' = checkForUpdates(provider)
  /\ UNCHANGED <<proxy, rendVars, envVars, backend, appPc, exitCode, listeners, windows, mainWindow, dialogShown,
                 ui, updateAvailable, updateDownloaded, bridge>>

\* the renderer of window w calls electronAPI.onUpdaterMessage(callback)
OnUpdaterMessage(w) ==
  /\ appPc # "quit"
  /\ w \in windows
  /\ listeners[w] < MaxListeners
  /\ listeners' = [listeners EXCEPT ![w] = onUpdaterMessage(@)]
  /\ UNCHANGED <<proxy, rendVars, envVars, backend, appPc, exitCode, windows, mainWindow, dialogShown,
                 updaterScheduled, ui, updVars>>

\* the renderer of window w calls electronAPI.removeUpdaterListener()
RemoveUpdaterListener(w) ==
  /\ appPc # "quit"
  /\ w \in windows
  /\ listeners' = [listeners EXCEPT ![w] = removeUpdaterListener(@)]
  /\ UNCHANGED <<proxy, rendVars, envVars, backend, appPc, exitCode, windows, mainWindow, dialogShown,
                 updaterScheduled, ui, updVars>>

\* ------------------------------------------------- backend bridge commands

\* the handlers that forward to the backend and return whatever it answers
PlainCommands ==
  {"test-backend", "test-llm", "validate-api-key", "check-api-key-status",
   "remove-api-key"}

\* the handlers that look at response.ok
DocumentCommands ==
  {"upload-document", "list-documents", "get-document-details", "delete-document"}

\* what a fetch can come to: it throws (no connection), or a response with a
\* status and a body: a JSON object with a 'detail' field, a JSON object
\* without one, the JSON value null, or text that is not JSON
HttpStatuses == {200, 201, 404, 500}

Bodies == {"json_detail", "json", "null", "invalid"}

Fetches ==
  {[kind |-> "throw", status |-> 0, body |-> "none"]}
    \cup [kind : {"response"}, status : HttpStatuses, body : Bodies]

\* Response.ok
ResponseOk(f) == f.status >= 200 /\ f.status <= 299

Success(data) == [success |-> TRUE, data |-> data, error |-> "undefined"]

Failure(error) == [success |-> FALSE, data |-> "undefined", error |-> error]

\* a handler that reports a refused connection as a success
plainHandler_throwAsSuccess(f) ==
  IF f.kind = "throw" THEN Success("undefined")
  ELSE IF f.body = "invalid" THEN Failure("error.message")
  ELSE Success(f.body)

\* test-backend, test-llm, validate-api-key, check-api-key-status,
\* remove-api-key: fetch, response.json(), return { success: true, data }
plainHandler(f) ==
  IF f.kind = "throw" THEN Failure("error.message")
  ELSE IF f.body = "invalid" THEN Failure("error.message")
  ELSE Success(f.body)

\* upload-document, list-documents, get-document-details, delete-document:
\* fetch, response.json(), then response.ok decides; data.detail of null throws
documentHandler(f) ==
  IF f.kind = "throw" THEN Failure("error.message")
  ELSE IF f.body = "invalid" THEN Failure("error.message")
  ELSE IF ResponseOk(f) THEN Success(f.body)
  ELSE IF f.body = "null" THEN Failure("error.message")
  ELSE IF f.body = "json_detail" THEN Failure("data.detail")
  ELSE Failure("fallback")

handle(cmd, f) ==
  IF cmd \in PlainCommands THEN plainHandler(f) ELSE documentHandler(f)

ProxyInit ==
  [cmd |-> "none", fetch |-> [kind |-> "none", status |-> 0, body |-> "none"],
   result |-> Failure("none")]

\* a window invokes backend command cmd and the backend answers its fetch with f
Invoke(cmd, f) ==
  /\ appPc # "quit"
  /\ windows # {}
  /\ proxy' = [cmd |-> cmd, fetch |-> f, result |-> handle(cmd, f)]
  /\ UNCHANGED <<envVars, backend, appVars, updVars, rendVars>>

\* ------------------------------------------------ UI connection monitoring

\* useAppState: isBackendConnected: false; Sidebar: useState(false)
ConnectionInit == [app |-> FALSE, sidebar |-> FALSE]

\* what fetch(http://127.0.0.1:8000/health) can come to: anything while a
\* child process runs, a connection error once none does
fetchHealth(B) ==
  IF \E p \in 1..Len(B.procs) : B.procs[p].st = "running"
  THEN Fetches
  ELSE {f \in Fetches : f.kind = "throw"}

\* the connectionInterval of App in window w fires: testBackend(), then
\* setBackendConnected(result.success)
AppPoll(w, f) ==
  /\ appPc # "quit"
  /\ w \in windows
  /\ f \in fetchHealth(backend)
  /\ proxy' = [cmd |-> "test-backend", fetch |-> f, result |-> handle("test-backend", f)]
  /\ connection' = [connection EXCEPT ![w].app = handle("test-backend", f).success]
  /\ UNCHANGED <<envVars, backend, appVars, updVars, manager>>

\* the interval of Sidebar in window w fires: checkConnection()
SidebarPoll(w, f) ==
  /\ appPc # "quit"
  /\ w \in windows
  /\ f \in fetchHealth(backend)
  /\ proxy' = [cmd |-> "test-backend", fetch |-> f, result |-> handle("test-backend", f)]
  /\ connection' = [connection EXCEPT ![w].sidebar = handle("test-backend", f).success]
  /\ UNCHANGED <<envVars, backend, appVars, updVars, manager>>

\* ------------------------------------------- UpdateManager of renderer.js

\* constructor: isChecking = false; calls: per checkForUpdates() call, whether
\* the promise it returned is pending or settled and whether the call invoked
\* the check-for-updates command; error: what showUpdateError last showed
ManagerInit == [isChecking |-> FALSE, calls |-> <<>>, error |-> "null"]

\* UpdateManager.checkForUpdates up to its await: return at once when
\* isChecking, else set isChecking and invoke the command
managerCheckForUpdates(M) ==
  IF M.isChecking
  THEN [M EXCEPT !.calls = Append(@, [st |-> "settled", invoked |-> FALSE])]
  ELSE [M EXCEPT !.isChecking = TRUE,
                 !.calls = Append(@, [st |-> "pending", invoked |-> TRUE])]

\* a checkForUpdates that clears isChecking only after a success
managerCheckSettled_stuck(M, c, R) ==
  [M EXCEPT !.isChecking = ~R.success,
            !.calls[c].st = "settled",
            !.error = IF R.success THEN @ ELSE R.error]

\* UpdateManager.checkForUpdates after its await in call c: showUpdateError on
\* failure (a failure result, or the catch of a rejected invoke), finally
\* isChecking = false
managerCheckSettled(M, c, R) ==
  [M EXCEPT !.isChecking = FALSE,
            !.calls[c].st = "settled",
            !.error = IF R.success THEN @ ELSE R.error]

\* the check button or the startup timer of the UpdateManager calls
\* checkForUpdates()
ManagerCheckForUpdates ==
  /\ appPc # "quit"
  /\ windows # {}
  /\ Len(manager.calls) < MaxChecks
  /\ manager' = managerCheckForUpdates(manager)
  /\ UNCHANGED <<proxy, envVars, backend, appVars, updVars, connection>>

\* the check-for-updates command invoked by call c runs in the main process
\* and its result reaches the UpdateManager
ManagerCheckReturns(c, thrown) ==
  /\ appPc # "quit"
  /\ c \in 1..Len(manager.calls)
  /\ manager.calls[c].st = "pending"
  /\ LET R == checkForUpdatesResult(thrown) IN
       /\ provider' = IF R.success THEN checkForUpdates(provider) ELSE provider
       /\ bridge' = Command("check-for-updates", R)
       /\ manager' = managerCheckSettled(manager, c, R)
  /\ UNCHANGED <<proxy, envVars, backend, appVars, updateAvailable, updateDownloaded,
                 connection>>

\* the invoke of call c rejects: the catch of checkForUpdates, then finally
ManagerCheckRejects(c) ==
  /\ appPc # "quit"
  /\ c \in 1..Len(manager.calls)
  /\ manager.calls[c].st = "pending"
  /\ manager' = managerCheckSettled(manager, c, Fail("error.message"))
  /\ UNCHANGED <<proxy, envVars, backend, appVars, updVars, connection>>

\* ------------------------------------------------------------ specifications

Procs == 1..MaxCalls

Tasks == 1..MaxCalls

InitEnv ==
  /\ isDev \in BOOLEAN
  /\ platform \in Platforms
  /\ pythonExists \in BOOLEAN
  /\ scriptExists \in BOOLEAN

\* the module-level updater code: the flags, and setFeedURL when !isDev
InitUpdater ==
  /\ updateAvailable = FALSE
  /\ updateDownloaded = FALSE
  /\ provider = IF ~isDev THEN setFeedURL(ProviderInit) ELSE ProviderInit
  /\ bridge = BridgeInit

Init ==
  /\ InitEnv
  /\ backend = PythonBackend
  /\ appPc = "init"
  /\ windows = {}
  /\ mainWindow = 0
  /\ dialogShown = FALSE
  /\ updaterScheduled = {}
  /\ ui = [w \in WindowSlots |-> UiInit]
  /\ exitCode = -1
  /\ listeners = [w \in WindowSlots |-> 0]
  /\ InitUpdater
  /\ manager = ManagerInit
  /\ connection = [w \in WindowSlots |-> ConnectionInit]
  /\ proxy = ProxyInit

\* the application up to the end of its startup: backend.start() is called
\* once, by the whenReady handler, and backend.stop() only on the way out, so
\* that the main process has ended before a grace timer is due
Next ==
  \/ WhenReady
  \/ \E t \in Tasks, r \in Responses : Poll(t, r)
  \/ LoadDone
  \/ LoadFail
  \/ Activate
  \/ \E w \in WindowSlots : WindowClosed(w)
  \/ UserQuit
  \/ \E p \in Procs : ProcExit(p)
  \/ \E p \in Procs : ProcError(p)

Spec == Init /\ [][Next]_vars

\* the PythonBackend object alone: process.platform only selects the name of
\* the interpreter, in development nothing reads the disk, and no application
\* handler runs
InitSupervisor ==
  /\ Init
  /\ platform = "win32"
  /\ isDev => (pythonExists /\ scriptExists)

\* the PythonBackend object under any sequence of start() and stop() calls
NextSupervisor ==
  \/ StartCall
  \/ StopCall
  \/ \E t \in Tasks, r \in Responses : Poll(t, r)
  \/ \E p \in Procs : ProcExit(p)
  \/ \E p \in Procs : ProcError(p)
  \/ \E p \in Procs : TimerFire(p)

SpecSupervisor == InitSupervisor /\ [][NextSupervisor]_vars

\* the application once its startup has completed: the backend answered its
\* first health poll, the window is loaded, setupAutoUpdater() has run
InitRunning ==
  /\ isDev \in BOOLEAN
  /\ platform \in Platforms
  /\ pythonExists = TRUE
  /\ scriptExists = TRUE
  /\ backend = waitForReady(start(PythonBackend), 1, "ok_json")
  /\ appPc = "running"
  /\ windows = {1}
  /\ mainWindow = 1
  /\ dialogShown = FALSE
  /\ updaterScheduled = setupAutoUpdater
  /\ ui = [w \in WindowSlots |-> UiInit]
  /\ exitCode = -1
  /\ listeners = useEffect([w \in WindowSlots |-> 0], 1)
  /\ InitUpdater
  /\ manager = ManagerInit
  /\ connection = [w \in WindowSlots |-> ConnectionInit]
  /\ proxy = ProxyInit

\* the update subsystem of the running application
NextUpdater ==
  \/ \E k \in {"setTimeout", "setInterval"} : TimerCheck(k)
  \/ \E w \in WindowSlots, thrown \in BOOLEAN : UiCheckForUpdates(w, thrown)
  \/ \E w \in WindowSlots : UiDownloadUpdate(w)
  \/ \E w \in WindowSlots, thrown \in BOOLEAN : UiInstallUpdate(w, thrown)
  \/ OnCheckingForUpdate
  \/ OnUpdateAvailable
  \/ OnUpdateNotAvailable
  \/ OnError
  \/ \E x10 \in ProviderPercents : OnDownloadProgress(x10)
  \/ OnUpdateDownloaded
  \/ Activate
  \/ \E w \in WindowSlots : WindowClosed(w)

SpecUpdater == InitRunning /\ [][NextUpdater]_vars

\* the update subsystem with a renderer that registers and removes listeners
\* through the preload API at any time
NextPreload ==
  \/ NextUpdater
  \/ \E w \in WindowSlots : OnUpdaterMessage(w)
  \/ \E w \in WindowSlots : RemoveUpdaterListener(w)

SpecPreload == InitRunning /\ [][NextPreload]_vars

\* the backend commands of the bridge of the running application
NextBridge ==
  \/ \E cmd \in PlainCommands \cup DocumentCommands, f \in Fetches : Invoke(cmd, f)
  \/ Activate
  \/ \E w \in WindowSlots : WindowClosed(w)

SpecBridge == InitRunning /\ [][NextBridge]_vars

\* the UI's periodic health polls of the running application while the
\* backend process may crash
NextConnection ==
  \/ \E w \in WindowSlots, f \in Fetches : AppPoll(w, f)
  \/ \E w \in WindowSlots, f \in Fetches : SidebarPoll(w, f)
  \/ \E p \in Procs : ProcExit(p)
  \/ \E p \in Procs : ProcError(p)

\* setInterval keeps firing both polls of the window
SpecConnection ==
  /\ InitRunning
  /\ [][NextConnection]_vars
  /\ WF_vars(\E f \in Fetches : AppPoll(1, f))
  /\ WF_vars(\E f \in Fetches : SidebarPoll(1, f))

\* the UpdateManager of the legacy renderer checking for updates
NextManager ==
  \/ ManagerCheckForUpdates
  \/ \E c \in 1..MaxChecks, thrown \in BOOLEAN : ManagerCheckReturns(c, thrown)
  \/ \E c \in 1..MaxChecks : ManagerCheckRejects(c)
  \/ OnCheckingForUpdate
  \/ OnUpdateNotAvailable
  \/ OnError

SpecManager == InitRunning /\ [][NextManager]_vars

\* ------------------------------------------------------------------ claims

TaskIds == 1..Len(backend.tasks)

ProcIds == 1..Len(backend.procs)

\* the step is a start() call
IsStartCall == backend'.starts = backend.starts + 1

\* the processes spawned by task t
SpawnedBy(B, t) == {p \in 1..Len(B.procs) : B.procs[p].by = t}

\* C1: a start() call issued while an earlier start is still in flight, with no
\* stop() in between, returns the promise of the earlier call (so both settle
\* with the same outcome) and spawns nothing: that start has spawned exactly
\* one child process.
C1_IdempotentStart ==
  [][ (IsStartCall /\ backend.startupPromise \in Pending(backend))
        => /\ backend'.returned = backend.returned
           /\ backend'.returned = backend.startupPromise
           /\ backend'.procs = backend.procs
           /\ Cardinality(SpawnedBy(backend', backend'.returned)) = 1 ]_vars

\* two start() calls and no stop(): one process, one promise, resolved true
C1_Witness ==
  /\ backend.starts = 2
  /\ backend.stops = 0
  /\ Len(backend.procs) = 1
  /\ backend.returned = 1
  /\ backend.tasks[1].pc = "resolved"

\* C2: the number of spawned child processes that have not exited is at most 1.
C2_AtMostOneLive ==
  Cardinality({p \in ProcIds : backend.procs[p].st = "running"}) <= 1

\* C3: when the grace timer of a stop() fires and the process that stop() was
\* stopping has not exited, SIGKILL is sent to that process.
C3_ForceKill ==
  [][ \A p \in Procs :
        (p \in backend.timers /\ p \notin backend'.timers
           /\ backend.procs[p].st = "running")
          => backend'.procs[p].signal = "SIGKILL" ]_vars

\* C4: when /health never answers 2xx, the start rejects with the timeout error
\* after exactly maxRetries polls, no window is created and the update check
\* cycle is not scheduled.
C4_BoundedHealthGate ==
  /\ [](\A t \in TaskIds :
          /\ (backend.tasks[t].pc = "polling" /\ ~backend.tasks[t].got2xx)
               => backend.tasks[t].i < maxRetries
          /\ (backend.tasks[t].pc = "rejected" /\ backend.tasks[t].err = "timeout")
               => backend.tasks[t].i = maxRetries)
  /\ [][ (\A t \in 1..Len(backend'.tasks) : ~backend'.tasks[t].got2xx)
           => /\ windows' \subseteq windows
              /\ updaterScheduled' = {} ]_vars

\* C5: the first health poll that receives a 2xx response, whatever its body,
\* makes waitForReady return true: a task that has received a 2xx response has
\* resolved.
C5_SinglePollSuffices ==
  \A t \in TaskIds : backend.tasks[t].got2xx => backend.tasks[t].pc = "resolved"

\* the step is the updater command cmd of the bridge
IsCommand(cmd) == bridge'.seq # bridge.seq /\ bridge'.cmd = cmd

\* C6: install-update invoked while the update status is not Downloaded fails
\* and does not call quitAndInstall.
C6_InstallOnlyWhenDownloaded ==
  [][ (IsCommand("install-update") /\ \E w \in windows : ui[w].status # "downloaded")
        => (~bridge'.success /\ provider'.installs = provider.installs) ]_vars

\* C7: download-update invoked while the update status is not Available returns
\* a failure result.
C7_DownloadOnlyWhenAvailable ==
  [][ (IsCommand("download-update") /\ \E w \in windows : ui[w].status # "available")
        => ~bridge'.success ]_vars

\* C8: no autoUpdater.checkForUpdates() call is made while an earlier check is
\* still in flight.
C8_CheckDeduplication ==
  [][ provider'.seq # provider.seq
        => provider.phase \notin {"called", "checking"} ]_vars

UpdateStatuses ==
  {"idle", "checking", "available", "downloading", "downloaded", "not-available",
   "error"}

\* the transition table of the update state machine
TransitionTable ==
  (UpdateStatuses \X {"checking"})
    \cup ({"checking"} \X {"available", "not-available", "error"})
    \cup {<<"available", "downloading">>, <<"downloading", "downloaded">>,
          <<"downloading", "error">>}

\* C9: the status of a window's hook is one of the seven values and every
\* change of it is a transition of the table.
C9_StateMachineLegality ==
  /\ [](\A w \in WindowSlots : ui[w].status \in UpdateStatuses)
  /\ [][ \A w \in windows \cap windows' :
           ui'[w].status # ui[w].status
             => <<ui[w].status, ui'[w].status>> \in TransitionTable ]_vars

\* C10: a backend command of the bridge returns success:true only when its
\* fetch completed with a 2xx response, and success:false with an error message
\* whenever the fetch throws or the backend answers a non-2xx status.
C10_ResultEnvelope ==
  proxy.cmd # "none" =>
    /\ proxy.result.success => (proxy.fetch.kind = "response" /\ ResponseOk(proxy.fetch))
    /\ (proxy.fetch.kind = "throw" \/ ~ResponseOk(proxy.fetch))
         => (~proxy.result.success /\ proxy.result.error # "undefined")

\* C11: a window exists only after backend.start() has resolved: whenever a
\* window is open, a start of the backend has resolved true.
C11_NoUiWithoutBackend ==
  windows # {} => \E t \in TaskIds : backend.tasks[t].pc = "resolved"

\* C12: when the backend.start() awaited by the startup rejects, the error
\* dialog is shown and the application terminates with a non-zero exit code.
C12_FatalStartupFailure ==
  [][ (/\ appPc \in {"init", "starting"}
       /\ backend'.returned # 0
       /\ backend'.tasks[backend'.returned].pc = "rejected")
        => (dialogShown' /\ appPc' = "quit" /\ exitCode' > 0) ]_vars

\* C13: when a child process whose start has resolved true exits or errors,
\* isReady becomes false and the application keeps running with its windows.
C13_CrashAfterReadyNonFatal ==
  [][ \A p \in Procs :
        (/\ p <= Len(backend.procs)
         /\ backend.procs[p].st = "running"
         /\ backend'.procs[p].st = "exited"
         /\ backend.tasks[backend.procs[p].by].pc = "resolved")
          => /\ ~backend'.isReady
             /\ appPc' = appPc
             /\ exitCode' = exitCode
             /\ windows' = windows
             /\ mainWindow' = mainWindow ]_vars

\* the backend of the running application has exited after it was ready
C13_Witness ==
  /\ appPc = "running"
  /\ windows # {}
  /\ exitCode = -1
  /\ ~backend.isReady
  /\ \E p \in ProcIds :
       /\ backend.procs[p].st = "exited"
       /\ backend.tasks[backend.procs[p].by].pc = "resolved"

\* the step is a stop() call
IsStopCall == backend'.stops = backend.stops + 1

\* the latest call was stop(): only start() sets startupPromise, only stop()
\* clears it
LastWasStop == backend.stops > 0 /\ backend.startupPromise = 0

\* C14: every stop() leaves process and startupPromise cleared and isReady
\* false; a stop() that follows a stop() sends no signal and arms no timer; the
\* start() that follows a stop() runs a new _startInternal, which spawns a new
\* child and polls from the first attempt when the paths resolve.
C14_StopIdempotentClean ==
  [][ /\ IsStopCall =>
           /\ backend'.process = 0
           /\ backend'.startupPromise = 0
           /\ ~backend'.isReady
      /\ (IsStopCall /\ LastWasStop) =>
           /\ backend'.procs = backend.procs
           /\ backend'.timers = backend.timers
      /\ (IsStartCall /\ LastWasStop) =>
           /\ Len(backend'.tasks) = Len(backend.tasks) + 1
           /\ backend'.returned = Len(backend'.tasks)
           /\ backend'.tasks[backend'.returned].i = 0
           /\ pathsResolve =>
                /\ Len(backend'.procs) = Len(backend.procs) + 1
                /\ backend'.process = Len(backend'.procs)
                /\ backend'.procs[backend'.process].st = "running"
                /\ backend'.tasks[backend'.returned].pc = "polling" ]_vars

\* start() resolved, stop(), start() again: a second child and a second task,
\* still polling
C14_Witness ==
  /\ backend.starts = 2
  /\ backend.stops = 1
  /\ Len(backend.tasks) = 2
  /\ Len(backend.procs) = 2
  /\ backend.tasks[1].pc = "resolved"
  /\ backend.tasks[2].pc = "polling"
  /\ backend.returned = 2

\* C15: in development every updater command fails with the development-mode
\* error, the autoUpdater is never called (no setFeedURL, checkForUpdates or
\* quitAndInstall) and no check is scheduled.
C15_DisabledInDevelopment ==
  /\ [](isDev => (provider = ProviderInit /\ updaterScheduled = {}))
  /\ [][ (isDev /\ bridge'.seq # bridge.seq)
           => /\ ~bridge'.success
              /\ bridge'.error = "Updates not available in development mode" ]_vars

\* in development, check-for-updates has been refused and the hook shows it
C15_Witness ==
  /\ isDev
  /\ bridge.cmd = "check-for-updates"
  /\ ~bridge.success
  /\ \E w \in windows : ui[w].status = "error"
  /\ provider = ProviderInit

\* C16: a start whose interpreter or script is missing from disk rejects with
\* the path error without spawning or polling, and a start that has polled has
\* spawned.
C16_FailFastPathResolution ==
  \A t \in TaskIds :
    /\ ~(pythonExists /\ scriptExists) =>
         /\ backend.tasks[t].pc = "rejected"
         /\ backend.tasks[t].err = "path"
         /\ backend.tasks[t].i = 0
         /\ SpawnedBy(backend, t) = {}
    /\ backend.tasks[t].i > 0 => SpawnedBy(backend, t) # {}

\* the step delivers the outcome of a check request: the check-for-updates
\* command returns, or the autoUpdater ends a check it was asked for
IsCheckOutcome ==
  \/ IsCommand("check-for-updates")
  \/ /\ provider.phase \in {"called", "checking"}
     /\ provider'.phase # provider.phase
     /\ provider'.seq = provider.seq

\* C17: the status of a hook changes to available, not-available or error as
\* the outcome of a check only from checking.
C17_CheckingPrecedesOutcome ==
  [][ IsCheckOutcome =>
        \A w \in windows \cap windows' :
          (/\ ui'[w].status \in {"available", "not-available", "error"}
           /\ ui'[w].status # ui[w].status)
            => ui[w].status = "checking" ]_vars

\* C18: at most one 'updater-message' callback is registered in a window, so a
\* pushed message invokes at most one callback.
C18_SingleSlotListener ==
  \A w \in WindowSlots : listeners[w] <= 1

\* C19: no download starts, and no hook changes to downloading or downloaded,
\* unless download-update has succeeded since the latest 'update-available'.
C19_ConsentGatesDownload ==
  [][ /\ (provider'.phase = "downloading" /\ provider.phase # "downloading")
           => bridge'.consented
      /\ \A w \in windows \cap windows' :
           (/\ ui'[w].status \in {"downloading", "downloaded"}
            /\ ui'[w].status # ui[w].status)
             => bridge.consented ]_vars

\* C20: isReady is true only while the process handle is set.
C20_ReadyImpliesProcess ==
  backend.isReady => backend.process # 0

\* C21: isReady of a ready backend that holds a process becomes false only
\* when stop() is called or when the process currently held exits or errors.
C21_StaleExitIgnored ==
  [][ (backend.isReady /\ backend.process # 0 /\ ~backend'.isReady)
        => \/ IsStopCall
           \/ /\ backend.process # 0
              /\ backend.procs[backend.process].st = "running"
              /\ backend'.procs[backend.process].st = "exited" ]_vars

\* the step is an autoUpdater event: the autoUpdater moves on without a new
\* checkForUpdates() call
IsUpdaterEvent == provider'.phase # provider.phase /\ provider'.seq = provider.seq

\* C22: an updater command, accepted or rejected, leaves updateAvailable and
\* updateDownloaded as they are; the flags change only in autoUpdater events.
C22_BridgeLeavesFlags ==
  [][ /\ bridge'.seq # bridge.seq
           => (updateAvailable' = updateAvailable /\ updateDownloaded' = updateDownloaded)
      /\ (updateAvailable' # updateAvailable \/ updateDownloaded' # updateDownloaded)
           => IsUpdaterEvent ]_vars

\* download-update was accepted and updateAvailable is still set
C22_Witness ==
  /\ bridge.cmd = "download-update"
  /\ bridge.success
  /\ updateAvailable

\* the step is a checkForUpdates() call on the UpdateManager
IsManagerCall == Len(manager'.calls) = Len(manager.calls) + 1

\* C23: a checkForUpdates() call made while isChecking is true invokes no
\* command and no provider request, and the promise it returns stays pending
\* with the call in flight, to settle with that call's result.
C23_DuplicateCheckYieldsPrior ==
  [][ (IsManagerCall /\ manager.isChecking)
        => /\ ~manager'.calls[Len(manager'.calls)].invoked
           /\ provider' = provider
           /\ bridge' = bridge
           /\ manager'.calls[Len(manager'.calls)].st = "pending" ]_vars

\* no child process of the backend is running
BackendDown == \A p \in ProcIds : backend.procs[p].st # "running"

\* C24: while the backend is down test-backend returns success:false, and once
\* it is down both connection flags of the window become false and stay false.
C24_DisconnectionObserved ==
  /\ [][ (BackendDown /\ proxy' # proxy) => ~proxy'.result.success ]_vars
  /\ (BackendDown ~> [](~connection[1].app /\ ~connection[1].sidebar))

\* the backend is down, the last probe was refused, both flags are false
C24_Witness ==
  /\ BackendDown
  /\ proxy.cmd = "test-backend"
  /\ proxy.fetch.kind = "throw"
  /\ ~connection[1].app
  /\ ~connection[1].sidebar

\* C25: a check answered 'no newer version' shows idle, checking,
\* not-available: 'checking-for-update' moves an idle hook to checking,
\* 'update-not-available' moves a checking hook to not-available, the status
\* does not change between the two events, nor afterwards until the next
\* check or command.
C25_ScenarioNotAvailable ==
  [][ \A w \in windows \cap windows' :
        /\ (/\ IsUpdaterEvent
            /\ provider.phase = "called"
            /\ provider'.phase = "checking"
            /\ ui[w].status = "idle")
             => ui'[w].status = "checking"
        /\ (/\ IsUpdaterEvent
            /\ provider.phase = "checking"
            /\ provider'.emitted = "update-not-available"
            /\ ui[w].status = "checking")
             => ui'[w].status = "not-available"
        /\ (/\ ~IsUpdaterEvent
            /\ bridge' = bridge
            /\ ui[w].status \in {"checking", "not-available"})
             => ui'[w].status = ui[w].status ]_vars

\* a check command was accepted, the autoUpdater found nothing and is idle
\* again, and the hook shows not-available
C25_Witness ==
  /\ bridge.cmd = "check-for-updates"
  /\ bridge.success
  /\ provider.phase = "idle"
  /\ ~updateAvailable
  /\ ~updateDownloaded
  /\ \E w \in windows : ui[w].status = "not-available" /\ ui[w].error = "null"

C27_PercentResetAtEpisodeStart ==
  [][ \A w \in windows \cap windows' :
        (/\ provider.phase = "downloading"
         /\ provider.sent = -1
         /\ provider'.sent >= 0)
          => ui[w].percent \in {-1, 0} ]_vars

\* C28: the grace timer of the stop() that was stopping p signals no process
\* other than p.
C28_TimerSignalsOnlyItsProcess ==
  [][ \A p \in Procs :
        (p \in backend.timers /\ p \notin backend'.timers)
          => \A q \in ProcIds \ {p} :
               backend'.procs[q].signal = backend.procs[q].signal ]_vars

\* C29: isReady is true only while the child process held has not exited.
C29_ReadyImpliesChildRunning ==
  (backend.isReady /\ backend.process # 0)
    => backend.procs[backend.process].st = "running"

\* C30: a start() call made while the memoized promise is a rejected one
\* returns that promise, spawns nothing and starts no polling.
C30_FailedStartMemoized ==
  [][ (/\ IsStartCall
       /\ backend.startupPromise # 0
       /\ backend.tasks[backend.startupPromise].pc = "rejected")
        => /\ backend'.returned = backend.startupPromise
           /\ backend'.startupPromise = backend.startupPromise
           /\ backend'.tasks = backend.tasks
           /\ backend'.procs = backend.procs ]_vars

\* start() rejected on timeout and start() was called again: one task, one
\* child process
C30_Witness ==
  /\ backend.starts = 2
  /\ backend.stops = 0
  /\ Len(backend.tasks) = 1
  /\ backend.tasks[1].pc = "rejected"
  /\ backend.tasks[1].err = "timeout"
  /\ Len(backend.procs) = 1
  /\ backend.returned = 1

\* C31: a start() call made while the memoized promise has resolved and the
\* process held has exited returns that promise, spawns nothing and leaves
\* isReady and the handle as they are.
C31_CrashKeepsMemoizedStart ==
  [][ (/\ IsStartCall
       /\ backend.startupPromise # 0
       /\ backend.tasks[backend.startupPromise].pc = "resolved"
       /\ backend.process # 0
       /\ backend.procs[backend.process].st = "exited")
        => /\ backend'.returned = backend.startupPromise
           /\ backend'.tasks = backend.tasks
           /\ backend'.procs = backend.procs
           /\ backend'.isReady = backend.isReady
           /\ backend'.process = backend.process ]_vars

\* the backend became ready, its child exited, start() was called again: the
\* resolved promise, no second child, not ready, the handle on the dead child
C31_Witness ==
  /\ backend.starts = 2
  /\ backend.stops = 0
  /\ Len(backend.procs) = 1
  /\ backend.procs[1].st = "exited"
  /\ backend.tasks[1].pc = "resolved"
  /\ backend.returned = 1
  /\ backend.process = 1
  /\ ~backend.isReady

\* C32: once a start has rejected on the health-check timeout, every child it
\* spawned that still runs has been sent a signal.
C32_NoOrphanAfterFailedStartup ==
  \A t \in TaskIds :
    (backend.tasks[t].pc = "rejected" /\ backend.tasks[t].err = "timeout")
      => \A p \in SpawnedBy(backend, t) :
           backend.procs[p].st = "running" => backend.procs[p].signal # "none"

\* the startup timed out, the dialog was shown, the application quit and the
\* child, still running, was sent SIGTERM
C32_Witness ==
  /\ appPc = "quit"
  /\ dialogShown
  /\ Len(backend.tasks) = 1
  /\ backend.tasks[1].err = "timeout"
  /\ backend.procs[1].st = "running"
  /\ backend.procs[1].signal = "SIGTERM"

\* C33: updateDownloaded becomes true only in an 'update-downloaded' event,
\* never becomes false again, and quitAndInstall() is called only when it is
\* true.
C33_DownloadedFlagSticky ==
  [][ /\ (updateDownloaded' /\ ~updateDownloaded)
           => (IsUpdaterEvent /\ provider'.emitted = "update-downloaded")
      /\ updateDownloaded => updateDownloaded'
      /\ (provider'.installs /\ ~provider.installs) => updateDownloaded ]_vars

\* install-update was accepted after an 'update-downloaded' event
C33_Witness ==
  /\ updateDownloaded
  /\ provider.installs
  /\ bridge.cmd = "install-update"
  /\ bridge.success

\* C34: isChecking is true exactly while a checkForUpdates() call awaits the
\* command, it is false again when that call completes, whatever the outcome,
\* and a call made while it is true invokes nothing.
C34_IsCheckingClears ==
  /\ [](manager.isChecking
          <=> \E c \in 1..Len(manager.calls) : manager.calls[c].st = "pending")
  /\ [][ /\ (\E c \in 1..Len(manager.calls) :
               manager.calls[c].st = "pending" /\ manager'.calls[c].st = "settled")
              => ~manager'.isChecking
         /\ (IsManagerCall /\ manager.isChecking)
              => /\ ~manager'.calls[Len(manager'.calls)].invoked
                 /\ bridge' = bridge
                 /\ provider' = provider ]_vars

\* a call failed, a duplicate call invoked nothing, and isChecking is false
C34_Witness ==
  /\ ~manager.isChecking
  /\ manager.error # "null"
  /\ Len(manager.calls) >= 2
  /\ manager.calls[1].invoked
  /\ manager.calls[1].st = "settled"
  /\ ~manager.calls[2].invoked

\* the step is an event of the autoUpdater
IsEmission ==
  /\ provider' # provider
  /\ provider'.seq = provider.seq
  /\ provider'.installs = provider.installs

\* C35: an autoUpdater event that arrives while mainWindow is null sets the
\* flags and changes no hook, and the hook of a window created later starts
\* from its initial state.
C35_NoReplayToNewWindow ==
  [][ /\ (IsEmission /\ mainWindow = 0) =>
           /\ ui' = ui
           /\ provider'.emitted = "update-available" => updateAvailable'
           /\ provider'.emitted = "update-not-available" => ~updateAvailable'
           /\ provider'.emitted = "update-downloaded" => updateDownloaded'
      /\ \A w \in windows' \ windows : ui'[w] = UiInit ]_vars

\* an update was found while no window existed, and the window opened since
\* shows idle
C35_Witness ==
  /\ updateAvailable
  /\ mainWindow # 0
  /\ mainWindow \in windows
  /\ listeners[mainWindow] = 1
  /\ ui[mainWindow] = UiInit

\* C36: removeUpdaterListener leaves no listener registered in the window, and
\* with none registered an updater message changes no hook.
C36_RemoveClearsAllListeners ==
  [][ /\ \A w \in windows \cap windows' :
           listeners'[w] < listeners[w] => listeners'[w] = 0
      /\ (IsEmission /\ mainWindow # 0 /\ listeners[mainWindow] = 0) => ui' = ui ]_vars

\* two listeners were registered and removed, and the 'checking-for-update'
\* message that followed was not handled
C36_Witness ==
  /\ mainWindow # 0
  /\ listeners[mainWindow] = 0
  /\ provider.emitted = "checking-for-update"
  /\ ui[mainWindow].status = "idle"

\* C37: after the 'error' message of an autoUpdater error is handled, the
\* error held by the hook is the message of that error.
C37_ErrorTextPreserved ==
  [][ (/\ IsEmission
       /\ provider'.emitted = "error"
       /\ mainWindow # 0
       /\ listeners[mainWindow] > 0)
        => ui'[mainWindow].error = "err.message" ]_vars

====
